---------------------------- MODULE Spec2Model ----------------------------
(***************************************************************************)
(* The public-key capability interface of rpgp, src/types/public_key.rs:   *)
(* the trait PublicKeyTrait (its two provided classifier methods) and the  *)
(* blanket implementation `impl<T: PublicKeyTrait> PublicKeyTrait for &T`, *)
(* which forwards every required method to the referent.                   *)
(*                                                                         *)
(* A key handle is either a concrete key (a record, the type T) or a       *)
(* borrowed view [ref |-> h] of a handle h (the type &T, &&T, ...).        *)
(* Method calls are dispatched on the handle's type as rustc does it: a    *)
(* view uses the methods of the &T implementation, a concrete key the      *)
(* methods of its own type.                                                *)
(***************************************************************************)
EXTENDS Integers, Sequences, FiniteSets, TLC

\* ------------------------------------------------------------------ bounds
\* Deepest nesting of borrowed views: 0 is the key itself, 1 is &k, 2 is &&k.
MaxDepth == 2
\* Largest number of bytes an output sink accepts before its writes fail.
MaxRoom == 4
\* Largest initial state of a caller's random source.
MaxSeed == 1

\* ------------------------------------------------------- external types
\* crate::crypto::public_key::PublicKeyAlgorithm, the closed enumeration.
PublicKeyAlgorithm ==
    { "RSA", "RSASign", "RSAEncrypt", "Elgamal", "ElgamalEncrypt", "DSA",
      "ECDH", "ECDSA", "DiffieHellman", "EdDSALegacy", "Ed25519", "Ed448",
      "X25519", "X448" }

\* crate::crypto::hash::HashAlgorithm (two members are enough to tell them apart).
HashAlgorithm == { "Sha256", "Sha512" }

\* crate::types::EskType.
EskType == { "V3_4", "V6" }

\* The private component a handle may carry besides its public material
\* (0: none, the handle is a plain public key).
Secrets == { 0, 1 }

\* Messages and plaintexts (&[u8]).
Bytes == { "m0", "m1" }

\* Failure kinds of an output sink (std::io::ErrorKind).
IoErrorKind == { "WriteZero", "BrokenPipe" }

\* Result<T>: Ok(v) and Err(e); v and e are tuples.
Ok(v) == [ok |-> TRUE, val |-> v]
Err(e) == [ok |-> FALSE, val |-> e]

AlgorithmMismatch == <<"AlgorithmMismatch">>
VerificationFailure == <<"VerificationFailure">>
IoFailure(kind) == <<"Io", kind>>

\* ------------------------------------------------------ the concrete key
\* The public material the key-material subsystem builds keys from: the
\* opaque parameters with the format version, the creation time and the
\* expiration (None is <<>>, Some(days) is <<days>>) of the key made of them.
Material ==
    { [params |-> "p", version |-> "V4", created_at |-> 1, expiration |-> <<>>],
      [params |-> "q", version |-> "V6", created_at |-> 2, expiration |-> <<30>>] }

\* A concrete key as the key-material subsystem constructs it.
MkKey(alg, m, x) ==
    [ version       |-> m.version,
      created_at    |-> m.created_at,
      expiration    |-> m.expiration,
      algorithm     |-> alg,
      public_params |-> <<alg, m.params>>,
      secret        |-> x ]

Keys ==
    { MkKey(a, m, x) : a \in PublicKeyAlgorithm, m \in Material, x \in Secrets }

\* The public portion of a key: everything but the private component.
PublicPart(k) ==
    [ version |-> k.version, created_at |-> k.created_at,
      expiration |-> k.expiration, algorithm |-> k.algorithm,
      public_params |-> k.public_params ]

\* ---------------------------------------------------------- key handles
IsRef(h) == "ref" \in DOMAIN h

\* &h
Borrow(h) == [ref |-> h]

RECURSIVE Borrowed(_, _)
\* The view of h through d layers of borrowing.
Borrowed(h, d) == IF d = 0 THEN h ELSE Borrow(Borrowed(h, d - 1))

\* What a call leaves behind: the returned value, the key after the call,
\* the caller's random source and the caller's output sink after the call.
Outcome(r, k, g, w) == [ret |-> r, key |-> k, rng |-> g, sink |-> w]

\* An output sink: the bytes written so far, the bytes it still accepts and
\* the failure its write reports once it is full.
Sink(room, fault) == [room |-> room, fault |-> fault, buf |-> <<>>]
NoSink == Sink(0, "WriteZero")

\* A call of method `op` on the key in slot s through d layers of borrowing:
\* the caller's random source and sink, the method, the handle, the arguments.
Req(op, s, d) ==
    [ rng |-> 0, sink |-> NoSink, op |-> op, slot |-> s, depth |-> d,
      hash |-> "Sha256", data |-> "m0", sig |-> <<>>, plain |-> "m0",
      typ |-> "V3_4" ]


\* --------------------------------------------- the concrete key's accessors
\* The required accessors as a concrete key type implements them: plain
\* reads of the key's fields.
T_version(self) == <<self.version>>

\* A content-derived identifier: a function of the public material alone.
T_fingerprint(self) ==
    <<"fp", self.version, self.created_at, self.algorithm, self.public_params>>

\* The identifier of the primary key this key belongs to.
T_key_id(self) == <<"id", self.algorithm, self.public_params>>

T_algorithm(self) == self.algorithm

T_created_at(self) == <<self.created_at>>

T_expiration(self) == self.expiration

T_public_params(self) == self.public_params

\* ------------------------------------- accessors: dispatch and forwarding
RECURSIVE version(_)
RECURSIVE fingerprint(_)
RECURSIVE key_id(_)
RECURSIVE algorithm(_)
RECURSIVE created_at(_)
RECURSIVE expiration(_)
RECURSIVE public_params(_)

\* A forwarding slip: the view answers with the fingerprint of the referent.
Ref_key_id_Swapped(self) == fingerprint(self.ref)

\* A forwarding slip: the view reports the catch-all general-purpose tag.
Ref_algorithm_Fixed(self) == "RSA"

\* impl PublicKeyTrait for &T: (*self).m()
Ref_public_params(self) == public_params(self.ref)
Ref_version(self) == version(self.ref)
Ref_fingerprint(self) == fingerprint(self.ref)
Ref_key_id(self) == key_id(self.ref)
Ref_algorithm(self) == algorithm(self.ref)
Ref_expiration(self) == expiration(self.ref)
Ref_created_at(self) == created_at(self.ref)

\* PublicKeyTrait's required accessors, resolved on the handle's type.
version(self) == IF IsRef(self) THEN Ref_version(self) ELSE T_version(self)
fingerprint(self) ==
    IF IsRef(self) THEN Ref_fingerprint(self) ELSE T_fingerprint(self)
key_id(self) == IF IsRef(self) THEN Ref_key_id(self) ELSE T_key_id(self)
algorithm(self) == IF IsRef(self) THEN Ref_algorithm(self) ELSE T_algorithm(self)
created_at(self) ==
    IF IsRef(self) THEN Ref_created_at(self) ELSE T_created_at(self)
expiration(self) ==
    IF IsRef(self) THEN Ref_expiration(self) ELSE T_expiration(self)
public_params(self) ==
    IF IsRef(self) THEN Ref_public_params(self) ELSE T_public_params(self)

\* ------------------------------------------------- the capability classifier
\* A classifier slip: Ed448 left out of the signing list.
is_signing_key_NoEd448(self) ==
    algorithm(self) \in
        { "RSA", "RSASign", "Elgamal", "DSA", "ECDSA", "EdDSALegacy", "Ed25519" }

\* A classifier slip: the sign-only RSA tag listed in place of the general one.
is_signing_key_NoRSA(self) ==
    algorithm(self) \in
        { "RSASign", "Elgamal", "DSA", "ECDSA", "EdDSALegacy", "Ed25519", "Ed448" }

\* A classifier slip: X448 left out of the encryption list.
is_encryption_key_NoX448(self) ==
    algorithm(self) \in
        { "RSA", "RSAEncrypt", "ECDH", "DiffieHellman", "Elgamal",
          "ElgamalEncrypt", "X25519" }

\* The provided method is_signing_key: matches!(self.algorithm(), ...).
is_signing_key(self) ==
    algorithm(self) \in
        { "RSA", "RSASign", "Elgamal", "DSA", "ECDSA", "EdDSALegacy",
          "Ed25519", "Ed448" }

\* The provided method is_encryption_key: matches!(self.algorithm(), ...).
is_encryption_key(self) ==
    algorithm(self) \in
        { "RSA", "RSAEncrypt", "ECDH", "DiffieHellman", "Elgamal",
          "ElgamalEncrypt", "X25519", "X448" }


\* -------------------------------------------- the concrete key's operations
\* The signature the matching signing logic produces over `data` hashed with
\* `hash` for the key with public material `pub`.
Sign(pub, hash, data) == <<"sig", pub, hash, data>>

\* The requested session-key encodings an algorithm cannot produce.
Incompatible == { <<"Elgamal", "V6">>, <<"ElgamalEncrypt", "V6">> }

\* The canonical bytes of the public portion of a key, one chunk per field.
HashingBytes(self) ==
    <<self.version, self.created_at, self.algorithm, self.public_params>>

RECURSIVE WriteAll(_, _)
\* io::Write::write_all chunk by chunk, each write followed by `?`: the first
\* failing write ends the call with the sink's own failure.
WriteAll(writer, bytes) ==
    IF bytes = <<>> THEN [ret |-> Ok(<<>>), sink |-> writer]
    ELSE IF writer.room = 0
         THEN [ret |-> Err(IoFailure(writer.fault)), sink |-> writer]
         ELSE WriteAll([writer EXCEPT !.buf = Append(@, Head(bytes)),
                                      !.room = @ - 1],
                       Tail(bytes))

\* verify_signature of a concrete key: an algorithm-mismatch failure when the
\* key's algorithm cannot verify, else the verdict of the algorithm's check.
T_verify_signature(self, hash, data, sig) ==
    IF ~is_signing_key(self)
    THEN Outcome(Err(AlgorithmMismatch), self, 0, NoSink)
    ELSE IF sig = Sign(self.public_params, hash, data)
         THEN Outcome(Ok(<<>>), self, 0, NoSink)
         ELSE Outcome(Err(VerificationFailure), self, 0, NoSink)

\* encrypt of a concrete key: an algorithm-mismatch failure when the key's
\* algorithm cannot encrypt or cannot produce the requested encoding, else the
\* encrypted session key, made with one draw from the random source.
T_encrypt(self, rng, plain, typ) ==
    IF ~is_encryption_key(self) \/ <<self.algorithm, typ>> \in Incompatible
    THEN Outcome(Err(AlgorithmMismatch), self, rng, NoSink)
    ELSE Outcome(Ok(<<"pkesk", self.public_params, typ, plain, rng>>),
                 self, rng + 1, NoSink)

\* serialize_for_hashing of a concrete key: the canonical bytes of the public
\* portion, written to the caller's sink.
T_serialize_for_hashing(self, writer) ==
    LET w == WriteAll(writer, HashingBytes(self))
    IN  Outcome(w.ret, self, 0, w.sink)

\* ------------------------------------ operations: dispatch and forwarding
RECURSIVE verify_signature(_, _, _, _)
RECURSIVE encrypt(_, _, _, _)
RECURSIVE serialize_for_hashing(_, _)


\* A forwarding slip: the view discards the referent's verdict.
Ref_verify_signature_Swallow(self, hash, data, sig) ==
    [verify_signature(self.ref, hash, data, sig) EXCEPT !.ret = Ok(<<>>)]

\* A forwarding slip: the view notes the check in the key it refers to.
Ref_verify_signature_Marking(self, hash, data, sig) ==
    LET o == verify_signature(self.ref, hash, data, sig)
    IN  [o EXCEPT !.key = [o.key EXCEPT !.expiration = <<0>>]]

\* A forwarding slip: the view turns a failure into an empty result.
Ref_encrypt_Default(self, rng, plain, typ) ==
    LET o == encrypt(self.ref, rng, plain, typ)
    IN  IF o.ret.ok THEN o ELSE [o EXCEPT !.ret = Ok(<<>>)]

\* A forwarding slip: the view hands the referent a sink of its own and the
\* caller's sink receives nothing.
Ref_serialize_for_hashing_Detached(self, writer) ==
    [serialize_for_hashing(self.ref, writer) EXCEPT !.sink = writer]

\* A forwarding slip: the view drops the referent's result.
Ref_serialize_for_hashing_Ignoring(self, writer) ==
    [serialize_for_hashing(self.ref, writer) EXCEPT !.ret = Ok(<<>>)]

\* impl PublicKeyTrait for &T: (*self).verify_signature(hash, data, sig)
Ref_verify_signature(self, hash, data, sig) ==
    verify_signature(self.ref, hash, data, sig)

\* impl PublicKeyTrait for &T: (*self).encrypt(rng, plain, typ)
Ref_encrypt(self, rng, plain, typ) == encrypt(self.ref, rng, plain, typ)

\* impl PublicKeyTrait for &T: (*self).serialize_for_hashing(writer)
Ref_serialize_for_hashing(self, writer) ==
    serialize_for_hashing(self.ref, writer)

\* PublicKeyTrait's required operations, resolved on the handle's type.
verify_signature(self, hash, data, sig) ==
    IF IsRef(self) THEN Ref_verify_signature(self, hash, data, sig)
    ELSE T_verify_signature(self, hash, data, sig)

encrypt(self, rng, plain, typ) ==
    IF IsRef(self) THEN Ref_encrypt(self, rng, plain, typ)
    ELSE T_encrypt(self, rng, plain, typ)

serialize_for_hashing(self, writer) ==
    IF IsRef(self) THEN Ref_serialize_for_hashing(self, writer)
    ELSE T_serialize_for_hashing(self, writer)

\* ------------------------------------------------------------ the callers
\* The key-material subsystem holds two independently constructed keys.
KeySlots == { "k1", "k2" }

\* The threads that call into the interface.
Threads == { "t1", "t2" }

Classifiers == { "is_signing_key", "is_encryption_key" }

NoCall == Req("none", "k1", 0)

\* What the caller holds once a call has returned: the result, its random
\* source and its sink.
Returned(o) == [ret |-> o.ret, rng |-> o.rng, sink |-> o.sink]
NoReturn == [ret |-> Ok(<<>>), rng |-> 0, sink |-> NoSink]

\* The call c made on the handle that views key k through c.depth borrows.
Invoke(c, k) ==
    LET h == Borrowed(k, c.depth)
        Got(v) == Outcome(Ok(v), k, c.rng, c.sink)
    IN  CASE c.op = "version" -> Got(version(h))
          [] c.op = "fingerprint" -> Got(fingerprint(h))
          [] c.op = "key_id" -> Got(key_id(h))
          [] c.op = "algorithm" -> Got(<<algorithm(h)>>)
          [] c.op = "created_at" -> Got(created_at(h))
          [] c.op = "expiration" -> Got(expiration(h))
          [] c.op = "public_params" -> Got(public_params(h))
          [] c.op = "is_signing_key" -> Got(<<is_signing_key(h)>>)
          [] c.op = "is_encryption_key" -> Got(<<is_encryption_key(h)>>)
          [] c.op = "verify_signature" ->
                [verify_signature(h, c.hash, c.data, c.sig)
                    EXCEPT !.rng = c.rng, !.sink = c.sink]
          [] c.op = "encrypt" ->
                [encrypt(h, c.rng, c.plain, c.typ) EXCEPT !.sink = c.sink]
          [] c.op = "serialize_for_hashing" ->
                [serialize_for_hashing(h, c.sink) EXCEPT !.rng = c.rng]

\* ------------------------------------------------------------------ state
VARIABLES
    keys,    \* slot -> the key held there
    key0,    \* slot -> the key as it was constructed
    pc,      \* thread -> "idle", "running" (inside a call) or "done"
    call,    \* thread -> the call the thread makes or has made
    ret,     \* thread -> what the call returned to the thread
    hashed   \* slot -> the outputs serialize_for_hashing has written for the key

vars == <<keys, key0, pc, call, ret, hashed>>

\* Two keys of one algorithm; they may differ in their public material and
\* in their private component.
Init ==
    /\ keys \in [KeySlots -> Keys]
    /\ keys["k1"].algorithm = keys["k2"].algorithm
    /\ key0 = keys
    /\ pc = [t \in Threads |-> "idle"]
    /\ call = [t \in Threads |-> NoCall]
    /\ ret = [t \in Threads |-> NoReturn]
    /\ hashed = [s \in KeySlots |-> {}]

\* The call c of thread t runs on the key as it is now and returns.
Complete(t, c) ==
    /\ LET o == Invoke(c, keys[c.slot])
       IN  /\ keys' = [keys EXCEPT ![c.slot] = o.key]
           /\ ret' = [ret EXCEPT ![t] = Returned(o)]
           /\ hashed' =
                 IF c.op = "serialize_for_hashing" /\ o.ret.ok
                 THEN [hashed EXCEPT ![c.slot] = @ \cup {o.sink.buf}]
                 ELSE hashed
    /\ pc' = [pc EXCEPT ![t] = "done"]
    /\ call' = [call EXCEPT ![t] = c]
    /\ UNCHANGED key0

\* Thread t enters the call c.
Begin(t, c) ==
    /\ pc[t] = "idle"
    /\ pc' = [pc EXCEPT ![t] = "running"]
    /\ call' = [call EXCEPT ![t] = c]
    /\ UNCHANGED <<keys, key0, ret, hashed>>

\* The call thread t is in runs and returns.
End(t) ==
    /\ pc[t] = "running"
    /\ Complete(t, call[t])

\* Thread t makes the call c from entry to return, nothing in between.
Whole(t, c) ==
    /\ pc[t] = "idle"
    /\ Complete(t, c)

\* Thread t drops what its call returned and is ready for the next call.
Finish(t) ==
    /\ pc[t] = "done"
    /\ pc' = [pc EXCEPT ![t] = "idle"]
    /\ call' = [call EXCEPT ![t] = NoCall]
    /\ ret' = [ret EXCEPT ![t] = NoReturn]
    /\ UNCHANGED <<keys, key0, hashed>>

\* With `split` the call is entered only and End returns from it later.
Step(t, c, split) == IF split THEN Begin(t, c) ELSE Whole(t, c)

Call_version(t, s, d, split) == Step(t, Req("version", s, d), split)
Call_fingerprint(t, s, d, split) == Step(t, Req("fingerprint", s, d), split)
Call_key_id(t, s, d, split) == Step(t, Req("key_id", s, d), split)
Call_algorithm(t, s, d, split) == Step(t, Req("algorithm", s, d), split)
Call_created_at(t, s, d, split) == Step(t, Req("created_at", s, d), split)
Call_expiration(t, s, d, split) == Step(t, Req("expiration", s, d), split)
Call_public_params(t, s, d, split) ==
    Step(t, Req("public_params", s, d), split)
Call_is_signing_key(t, s, d, split) ==
    Step(t, Req("is_signing_key", s, d), split)
Call_is_encryption_key(t, s, d, split) ==
    Step(t, Req("is_encryption_key", s, d), split)

\* The signature is one the matching private key made, over the message or
\* over another one.
Call_verify_signature(t, s, d, split, hashes, messages) ==
    \E h \in hashes, m \in messages, signed \in Bytes :
        Step(t, [Req("verify_signature", s, d) EXCEPT
                    !.hash = h, !.data = m,
                    !.sig = Sign(keys[s].public_params, h, signed)], split)

Call_encrypt(t, s, d, split, seeds, plains) ==
    \E r \in seeds, p \in plains, typ \in EskType :
        Step(t, [Req("encrypt", s, d) EXCEPT
                    !.rng = r, !.plain = p, !.typ = typ], split)

Call_serialize_for_hashing(t, s, d, split, rooms, faults) ==
    \E room \in rooms, fault \in faults :
        Step(t, [Req("serialize_for_hashing", s, d) EXCEPT
                    !.sink = Sink(room, fault)], split)

\* One caller, every handle, every argument.
Next ==
    \/ \E s \in KeySlots, d \in 0..MaxDepth :
        \/ Call_version("t1", s, d, FALSE)
        \/ Call_fingerprint("t1", s, d, FALSE)
        \/ Call_key_id("t1", s, d, FALSE)
        \/ Call_algorithm("t1", s, d, FALSE)
        \/ Call_created_at("t1", s, d, FALSE)
        \/ Call_expiration("t1", s, d, FALSE)
        \/ Call_public_params("t1", s, d, FALSE)
        \/ Call_is_signing_key("t1", s, d, FALSE)
        \/ Call_is_encryption_key("t1", s, d, FALSE)
        \/ Call_verify_signature("t1", s, d, FALSE, HashAlgorithm, Bytes)
        \/ Call_encrypt("t1", s, d, FALSE, 0..MaxSeed, Bytes)
        \/ Call_serialize_for_hashing("t1", s, d, FALSE, 0..MaxRoom, IoErrorKind)
    \/ Finish("t1")

Spec == Init /\ [][Next]_vars

\* Several threads share one key: both slots hold it and every thread calls
\* through a borrowed view of slot k1, each call with a random source and a
\* sink of its own.
InitConc ==
    /\ Init
    /\ keys["k2"] = keys["k1"]

NextConc ==
    \E t \in Threads :
        \/ Call_version(t, "k1", 1, TRUE)
        \/ Call_fingerprint(t, "k1", 1, TRUE)
        \/ Call_key_id(t, "k1", 1, TRUE)
        \/ Call_algorithm(t, "k1", 1, TRUE)
        \/ Call_created_at(t, "k1", 1, TRUE)
        \/ Call_expiration(t, "k1", 1, TRUE)
        \/ Call_public_params(t, "k1", 1, TRUE)
        \/ Call_is_signing_key(t, "k1", 1, TRUE)
        \/ Call_is_encryption_key(t, "k1", 1, TRUE)
        \/ Call_verify_signature(t, "k1", 1, TRUE, {"Sha256"}, {"m0"})
        \/ Call_encrypt(t, "k1", 1, TRUE, {0}, {"m0"})
        \/ Call_serialize_for_hashing(t, "k1", 1, TRUE, {0, MaxRoom}, {"WriteZero"})
        \/ End(t)
        \/ Finish(t)

SpecConc == InitConc /\ [][NextConc]_vars


\* ------------------------------------------------------------- properties
\* Thread t holds the result of a call of method op.
Done(t, op) == pc[t] = "done" /\ call[t].op = op

\* What the call c returns when it is made on the key itself, as the key
\* was constructed, with nothing else running.
Direct(c) == Returned(Invoke([c EXCEPT !.depth = 0], key0[c.slot]))

\* C1: on a key of any tag of the enumeration, is_signing_key returns true
\* exactly for RSA, RSASign, Elgamal, DSA, ECDSA, EdDSALegacy, Ed25519 and
\* Ed448, and false for RSAEncrypt, ECDH, DiffieHellman, X25519, X448 and
\* ElgamalEncrypt.
C1_SigningTable ==
    \A t \in Threads :
        Done(t, "is_signing_key") =>
            LET a == key0[call[t].slot].algorithm
            IN  /\ a \in { "RSA", "RSASign", "Elgamal", "DSA", "ECDSA",
                           "EdDSALegacy", "Ed25519", "Ed448" }
                        => ret[t].ret = Ok(<<TRUE>>)
                /\ a \in { "RSAEncrypt", "ECDH", "DiffieHellman", "X25519",
                           "X448", "ElgamalEncrypt" }
                        => ret[t].ret = Ok(<<FALSE>>)
                /\ ret[t].ret \in { Ok(<<TRUE>>), Ok(<<FALSE>>) }

C1_Witness ==
    \E t \in Threads :
        /\ Done(t, "is_signing_key")
        /\ key0[call[t].slot].algorithm = "Ed448"
        /\ ret[t].ret = Ok(<<TRUE>>)

\* C2: on a key of any tag of the enumeration, is_encryption_key returns true
\* exactly for RSA, RSAEncrypt, ECDH, DiffieHellman, Elgamal, ElgamalEncrypt,
\* X25519 and X448, and false for RSASign, DSA, ECDSA, EdDSALegacy, Ed25519
\* and Ed448.
C2_EncryptionTable ==
    \A t \in Threads :
        Done(t, "is_encryption_key") =>
            LET a == key0[call[t].slot].algorithm
            IN  /\ a \in { "RSA", "RSAEncrypt", "ECDH", "DiffieHellman",
                           "Elgamal", "ElgamalEncrypt", "X25519", "X448" }
                        => ret[t].ret = Ok(<<TRUE>>)
                /\ a \in { "RSASign", "DSA", "ECDSA", "EdDSALegacy",
                           "Ed25519", "Ed448" }
                        => ret[t].ret = Ok(<<FALSE>>)
                /\ ret[t].ret \in { Ok(<<TRUE>>), Ok(<<FALSE>>) }

C2_Witness ==
    \E t \in Threads :
        /\ Done(t, "is_encryption_key")
        /\ key0[call[t].slot].algorithm = "X448"
        /\ ret[t].ret = Ok(<<TRUE>>)

\* C3: every operation called through a borrowed view of a key returns what
\* the same call on the key itself returns, success or failure, and leaves
\* the key, the random source and the sink as that call leaves them.
C3_ReferenceTransparency ==
    \A t \in Threads :
        pc[t] = "done" => ret[t] = Direct(call[t]) /\ keys = key0

C3_Witness ==
    \E t \in Threads :
        /\ Done(t, "key_id")
        /\ call[t].depth = 2
        /\ ret[t].ret = Ok(T_key_id(key0[call[t].slot]))

C9_Overlap ==
    \A s \in KeySlots, d \in 0..MaxDepth :
        LET h == Borrowed(keys[s], d)
        IN  /\ (is_signing_key(h) /\ is_encryption_key(h))
                  <=> keys[s].algorithm \in { "RSA", "Elgamal" }
            /\ is_signing_key(h) \/ is_encryption_key(h)

C9_Witness ==
    \E t \in Threads :
        /\ Done(t, "is_encryption_key")
        /\ key0[call[t].slot].algorithm = "Elgamal"
        /\ is_signing_key(key0[call[t].slot])
        /\ ret[t].ret = Ok(<<TRUE>>)

\* C10: a classifier called through any depth of borrowed views returns what
\* it returns on the key itself, and that is what it returns on every key
\* of the same algorithm tag, whatever the other fields of the keys are.
C10_ClassifierByTag ==
    \A t \in Threads :
        pc[t] = "done" /\ call[t].op \in Classifiers =>
            /\ ret[t] = Direct(call[t])
            /\ \A s \in KeySlots :
                  key0[s].algorithm = key0[call[t].slot].algorithm
                      => ret[t] = Direct([call[t] EXCEPT !.slot = s])

C10_Witness ==
    \E t \in Threads :
        /\ Done(t, "is_signing_key")
        /\ call[t].depth = 2
        /\ key0["k1"] # key0["k2"]
        /\ ret[t].ret = Ok(<<FALSE>>)

=============================================================================
